---- MODULE Spec2Model ----
(***************************************************************************)
(* The usearch backend adapter of vicinity                                 *)
(* (src/vicinity/backends/usearch.py): one adapter built by from_vectors,  *)
(* then queried, grown, saved and reloaded.                                *)
(*                                                                         *)
(* The wrapped engine (usearch.index.Index) is a third-party library; the  *)
(* model gives it the behaviour its Python binding documents:              *)
(*   - add(keys=None, vectors) labels the new rows len(index),             *)
(*     len(index)+1, ... in row order;                                     *)
(*   - search(vectors, count) fills, per query row, a count-wide row of    *)
(*     keys and distances with the matches found, nearest first, and       *)
(*     leaves the slots past the number of matches as allocated            *)
(*     (uninitialised); for a batch of ONE query row it hands back that    *)
(*     row cut to its matches (Matches), for more rows the padded          *)
(*     matrices (BatchMatches);                                            *)
(*   - count is an unsigned parameter of the binding: a negative count is  *)
(*     rejected with TypeError.                                            *)
(* The graph search is modelled as exact (every stored vector is           *)
(* reachable), ties in distance broken by insertion order.  Vectors have   *)
(* small integer components, so l2sq and ip distances are exact integers.  *)
(***************************************************************************)
EXTENDS Integers, Sequences, FiniteSets, TLC

VARIABLES
    state,      \* "UNBUILT" or "BUILT" (spec.md 4.3, per adapter instance)
    index,      \* self.index: the engine instance the adapter owns
    arguments,  \* self.arguments: the UsearchArgs record
    disk,       \* the directory base_path: file name -> content
    loaded,     \* the adapter returned by the last load(base_path)
    presave,    \* history: the adapter as it was when save last ran
    supplied,   \* history: rows handed to from_vectors and to inserts
    ret,        \* the last call: its name, inputs, error and result
    lret        \* the last call made on the loaded adapter

vars == <<state, index, arguments, disk, loaded, presave, supplied, ret, lret>>

(***************************************************************************)
(* Bounds of the model.                                                    *)
(***************************************************************************)
MaxRows == 2    \* rows of a build or insert batch
MaxLen  == 3    \* inserts stop once the index holds this many vectors
MaxK    == 2    \* query is called with k in -1 .. MaxK

\* threshold's probe size: self.query(vectors, 100)
ThresholdK == 100

\* Small batches are 2-dimensional; the large build batch below is
\* 1-dimensional, so both a dim of 1 and of 2 occur.
Dims       == {2}
Components == {0, 1}
Thresholds == {0, 1}

\* The vectors of the model: every component the same small integer.
Vectors(d) == {[i \in 1..d |-> c] : c \in Components}
Batches(d) == UNION {[1..n -> Vectors(d)] : n \in 1..MaxRows}

\* A build batch large enough that threshold's probe of 100 is cut short by
\* nothing but its own cap.
BigBatch == [i \in 1..(ThresholdK + 1) |-> <<i % 2>>]

BuildBatches == (UNION {Batches(d) : d \in Dims}) \cup {BigBatch}

\* The fixed probe batches: one query row, and two.
ProbeBatches(d) ==
    { <<[i \in 1..d |-> 0]>>,
      <<[i \in 1..d |-> 0], [i \in 1..d |-> 1]>> }

\* Keyword configurations a caller passes to from_vectors.
Configs ==
    { [metric |-> "l2sq", connectivity |-> 16, expansion_add |-> 128,
       expansion_search |-> 64],
      [metric |-> "ip", connectivity |-> 32, expansion_add |-> 64,
       expansion_search |-> 32] }

\* Keys a caller may pass besides the four named ones (**kwargs).
ExtraKwargs == { {}, {"dim"}, {"nlist"} }

\* What an uninitialised result slot may hold: zeroed memory, or a stale value.
Garbage == { [key |-> 0, dist |-> 0], [key |-> 7, dist |-> -5] }

Min(S) == CHOOSE x \in S : \A y \in S : x <= y

(***************************************************************************)
(* UsearchArgs                                                             *)
(***************************************************************************)
\* Mutant: the derived dimension is not passed on, dim keeps its default.
UsearchArgsNoDim(dim, metric, connectivity, expansion_add, expansion_search) ==
    [dim |-> 0, metric |-> metric, connectivity |-> connectivity,
     expansion_add |-> expansion_add, expansion_search |-> expansion_search]

UsearchArgs(dim, metric, connectivity, expansion_add, expansion_search) ==
    [dim |-> dim, metric |-> metric, connectivity |-> connectivity,
     expansion_add |-> expansion_add, expansion_search |-> expansion_search]

UsearchArgsDefault == UsearchArgs(0, "cos", 16, 128, 64)

(***************************************************************************)
(* The engine: usearch.index.Index                                         *)
(***************************************************************************)
UsearchIndex(ndim, metric, connectivity, expansion_add, expansion_search) ==
    [ndim |-> ndim, metric |-> metric, connectivity |-> connectivity,
     expansion_add |-> expansion_add, expansion_search |-> expansion_search,
     entries |-> <<>>]

IndexLen(idx) == Len(idx.entries)

\* Mutant: the last row of the batch is not added.
IndexAddDropsLast(idx, vectors) ==
    [idx EXCEPT !.entries = @ \o
        [i \in 1..(Len(vectors) - 1) |->
            [key |-> Len(idx.entries) + i - 1, vector |-> vectors[i]]]]

\* Mutant: every batch is labelled from 0, whatever the index already holds.
IndexAddFromZero(idx, vectors) ==
    [idx EXCEPT !.entries = @ \o
        [i \in 1..Len(vectors) |-> [key |-> i - 1, vector |-> vectors[i]]]]

\* index.add(None, vectors): keys default to len(index) .. len(index)+n-1.
IndexAdd(idx, vectors) ==
    [idx EXCEPT !.entries = @ \o
        [i \in 1..Len(vectors) |->
            [key |-> Len(idx.entries) + i - 1, vector |-> vectors[i]]]]

RECURSIVE Dot(_, _, _)
Dot(a, b, n) == IF n = 0 THEN 0 ELSE a[n] * b[n] + Dot(a, b, n - 1)

RECURSIVE SqDiff(_, _, _)
SqDiff(a, b, n) ==
    IF n = 0 THEN 0 ELSE (a[n] - b[n]) * (a[n] - b[n]) + SqDiff(a, b, n - 1)

\* The metric kinds of the engine used here: squared L2, and inner product
\* (distance 1 - <a, b>).
Distance(metric, a, b) ==
    IF metric = "l2sq" THEN SqDiff(a, b, Len(a)) ELSE 1 - Dot(a, b, Len(a))

\* The stored vectors scored against one query row, in insertion order.
Scored(idx, q) ==
    [i \in 1..Len(idx.entries) |->
        [key  |-> idx.entries[i].key,
         dist |-> Distance(idx.metric, q, idx.entries[i].vector)]]

RECURSIVE ByDistance(_, _)
ByDistance(scored, ds) ==
    IF ds = {} THEN <<>>
    ELSE LET d == Min(ds)
         IN SelectSeq(scored, LAMBDA p : p.dist = d)
            \o ByDistance(scored, ds \ {d})

\* The matches of one query row: the count nearest entries, nearest first.
Matches(idx, q, count) ==
    LET scored == Scored(idx, q)
        sorted == ByDistance(scored, {scored[i].dist : i \in 1..Len(scored)})
    IN SubSeq(sorted, 1, IF count < Len(sorted) THEN count ELSE Len(sorted))

\* index.search(vectors, count), count >= 0: per query row a count-wide row and
\* the number of matches in it.  The slots past the matches are not written.
IndexSearch(idx, vectors, count) ==
    LET found == [i \in 1..Len(vectors) |-> Matches(idx, vectors[i], count)]
    IN { [rows   |-> [i \in 1..Len(vectors) |->
                         found[i] \o
                         [j \in 1..(count - Len(found[i])) |-> pad[i]]],
          counts |-> [i \in 1..Len(vectors) |-> Len(found[i])]]
         : pad \in [1..Len(vectors) -> Garbage] }

\* What search hands back, flattened: a single query row is cut to its
\* matches, a batch keeps its padded rows.
RECURSIVE Flatten(_)
Flatten(rows) ==
    IF rows = <<>> THEN <<>> ELSE Head(rows) \o Flatten(Tail(rows))

Distil(raw) ==
    IF Len(raw.rows) = 1
    THEN SubSeq(raw.rows[1], 1, raw.counts[1])
    ELSE Flatten(raw.rows)

NoResult(error) == [error |-> error, rows |-> <<>>]

\* Mutant: a zero k yields an empty result instead of failing.
ReshapeLenient(flat, k) ==
    IF k = 0
    THEN [error |-> "", rows |-> <<>>]
    ELSE IF Len(flat) % k # 0
    THEN NoResult("ValueError")
    ELSE [error |-> "",
          rows  |-> [r \in 1..(Len(flat) \div k) |->
                        SubSeq(flat, (r - 1) * k + 1, r * k)]]

\* np.array(...).reshape(-1, k)
Reshape(flat, k) ==
    IF k = 0 \/ Len(flat) % k # 0
    THEN NoResult("ValueError")
    ELSE [error |-> "",
          rows  |-> [r \in 1..(Len(flat) \div k) |->
                        SubSeq(flat, (r - 1) * k + 1, r * k)]]

(***************************************************************************)
(* UsearchBackend                                                          *)
(***************************************************************************)
Dim(idx) == idx.ndim

\* len(adapter)
Length(idx) == IndexLen(idx)

\* query(vectors, k): the outcomes the call can have.
Query(idx, vectors, k) ==
    IF k < 0
    THEN {NoResult("TypeError")}
    ELSE {Reshape(Distil(raw), k) : raw \in IndexSearch(idx, vectors, k)}

\* Mutant: the comparison with the threshold is not strict.
ThresholdInclusive(idx, vectors, threshold) ==
    { IF q.error # ""
      THEN [error |-> q.error, rows |-> <<>>, subsets |-> <<>>]
      ELSE [error   |-> "",
            rows    |-> q.rows,
            subsets |-> [r \in 1..Len(q.rows) |->
                LET below == SelectSeq(q.rows[r],
                                       LAMBDA p : p.dist <= threshold)
                IN [i \in 1..Len(below) |-> below[i].key]]]
      : q \in Query(idx, vectors, ThresholdK) }

\* threshold(vectors, threshold): per probe row, the keys whose distance is
\* strictly below the threshold; the probe itself is kept beside them.
Threshold(idx, vectors, threshold) ==
    { IF q.error # ""
      THEN [error |-> q.error, rows |-> <<>>, subsets |-> <<>>]
      ELSE [error   |-> "",
            rows    |-> q.rows,
            subsets |-> [r \in 1..Len(q.rows) |->
                LET below == SelectSeq(q.rows[r],
                                       LAMBDA p : p.dist < threshold)
                IN [i \in 1..Len(below) |-> below[i].key]]]
      : q \in Query(idx, vectors, ThresholdK) }

(***************************************************************************)
(* Persistence.  The engine's file format is no part of this repository:   *)
(* index.save and index.load are taken at the contract spec.md 4.2 gives   *)
(* them (persist and restore the full engine state), the file holding the  *)
(* entry count, the keys and the vectors as one flat matrix.  What load    *)
(* shows in the source is kept: the index is constructed from the argument *)
(* record (ndim, metric, connectivity, expansions) and then filled from    *)
(* the file.  BaseArgs.dump writes the record's fields as a JSON object,   *)
(* each value as JSON text (a number in decimal digits, a string as        *)
(* itself).                                                                *)
(***************************************************************************)
IndexSave(idx) ==
    [count |-> Len(idx.entries),
     keys  |-> [i \in 1..Len(idx.entries) |-> idx.entries[i].key],
     data  |-> Flatten([i \in 1..Len(idx.entries) |-> idx.entries[i].vector])]

\* index.load(path) on the index load() has just constructed: the entries of
\* the file become the index's own.
IndexLoad(idx, file) ==
    [idx EXCEPT
       !.entries = [i \in 1..file.count |->
                       [key    |-> file.keys[i],
                        vector |-> SubSeq(file.data, (i - 1) * idx.ndim + 1,
                                          i * idx.ndim)]]]

RECURSIVE Digits(_)
Digits(n) == IF n < 10 THEN <<n>> ELSE Append(Digits(n \div 10), n % 10)

RECURSIVE Number(_)
Number(ds) ==
    IF ds = <<>> THEN 0 ELSE 10 * Number(SubSeq(ds, 1, Len(ds) - 1)) + ds[Len(ds)]

JsonNumber(n) == [kind |-> "number", digits |-> Digits(n), chars |-> ""]
JsonString(s) == [kind |-> "string", digits |-> <<>>, chars |-> s]

ArgsDump(args) ==
    [dim              |-> JsonNumber(args.dim),
     metric           |-> JsonString(args.metric),
     connectivity     |-> JsonNumber(args.connectivity),
     expansion_add    |-> JsonNumber(args.expansion_add),
     expansion_search |-> JsonNumber(args.expansion_search)]

ArgsLoad(json) ==
    UsearchArgs(Number(json.dim.digits), json.metric.chars,
                Number(json.connectivity.digits),
                Number(json.expansion_add.digits),
                Number(json.expansion_search.digits))

NoCall ==
    [op |-> "", vectors |-> <<>>, k |-> 0, t |-> 0, indices |-> <<>>,
     extra |-> {}, error |-> "", rows |-> <<>>, subsets |-> <<>>]

NoIndex == UsearchIndex(0, "", 0, 0, 0)
NoAdapter == [present |-> FALSE, index |-> NoIndex,
              arguments |-> UsearchArgsDefault]
EmptyDir == [saved |-> FALSE, index_usearch |-> IndexSave(NoIndex),
             arguments_json |-> ArgsDump(UsearchArgsDefault)]

\* Index lists handed to delete: empty, valid, out of range.
IndexLists(idx) == { <<>>, <<0>>, <<0, IndexLen(idx)>> }

Init ==
    /\ state = "UNBUILT"
    /\ index = NoIndex
    /\ arguments = UsearchArgsDefault
    /\ disk = EmptyDir
    /\ loaded = NoAdapter
    /\ presave = NoAdapter
    /\ supplied = 0
    /\ ret = NoCall
    /\ lret = NoCall

FromVectors ==
    /\ state = "UNBUILT"
    /\ \E vectors \in BuildBatches, cfg \in Configs, extra \in ExtraKwargs :
         LET dim == Len(vectors[1])
         IN /\ index' = IndexAdd(
                   UsearchIndex(dim, cfg.metric, cfg.connectivity,
                                cfg.expansion_add, cfg.expansion_search),
                   vectors)
            /\ arguments' = UsearchArgs(dim, cfg.metric, cfg.connectivity,
                                        cfg.expansion_add, cfg.expansion_search)
            /\ supplied' = Len(vectors)
            /\ ret' = [NoCall EXCEPT !.op = "from_vectors",
                                      !.vectors = vectors, !.extra = extra]
    /\ state' = "BUILT"
    /\ UNCHANGED <<disk, loaded, presave, lret>>

Insert ==
    /\ state = "BUILT"
    /\ \E vectors \in Batches(Dim(index)) :
         /\ IndexLen(index) + Len(vectors) <= MaxLen
         /\ index' = IndexAdd(index, vectors)
         /\ supplied' = supplied + Len(vectors)
         /\ ret' = [NoCall EXCEPT !.op = "insert", !.vectors = vectors]
    /\ UNCHANGED <<state, arguments, disk, loaded, presave, lret>>

\* Mutant: delete removes the entries whose keys are listed, and returns.
DeleteRemoves ==
    /\ state = "BUILT"
    /\ \E indices \in IndexLists(index) :
         /\ index' = [index EXCEPT !.entries =
               SelectSeq(@, LAMBDA e :
                   \A i \in 1..Len(indices) : indices[i] # e.key)]
         /\ ret' = [NoCall EXCEPT !.op = "delete", !.indices = indices]
    /\ UNCHANGED <<state, arguments, disk, loaded, presave, supplied, lret>>

Delete ==
    /\ state = "BUILT"
    /\ \E indices \in IndexLists(index) :
         ret' = [NoCall EXCEPT !.op = "delete", !.indices = indices,
                                !.error = "NotImplementedError"]
    /\ UNCHANGED <<state, index, arguments, disk, loaded, presave, supplied,
                   lret>>

QueryCall ==
    /\ state = "BUILT"
    /\ \E vectors \in ProbeBatches(Dim(index)), k \in -1..MaxK :
         \E out \in Query(index, vectors, k) :
            ret' = [NoCall EXCEPT !.op = "query", !.vectors = vectors,
                                   !.k = k, !.error = out.error,
                                   !.rows = out.rows]
    /\ UNCHANGED <<state, index, arguments, disk, loaded, presave, supplied,
                   lret>>

ThresholdCall ==
    /\ state = "BUILT"
    /\ \E vectors \in ProbeBatches(Dim(index)), t \in Thresholds :
         \E out \in Threshold(index, vectors, t) :
            ret' = [NoCall EXCEPT !.op = "threshold", !.vectors = vectors,
                                   !.t = t, !.error = out.error,
                                   !.rows = out.rows, !.subsets = out.subsets]
    /\ UNCHANGED <<state, index, arguments, disk, loaded, presave, supplied,
                   lret>>

Save ==
    /\ state = "BUILT"
    /\ disk' = [saved |-> TRUE, index_usearch |-> IndexSave(index),
                arguments_json |-> ArgsDump(arguments)]
    /\ presave' = [present |-> TRUE, index |-> index, arguments |-> arguments]
    /\ ret' = [NoCall EXCEPT !.op = "save"]
    /\ UNCHANGED <<state, index, arguments, loaded, supplied, lret>>

\* load(base_path): the adapter the files of a directory give.
LoadFrom(dir) ==
    LET args == ArgsLoad(dir.arguments_json)
    IN [present   |-> TRUE,
        index     |-> IndexLoad(
            UsearchIndex(args.dim, args.metric, args.connectivity,
                         args.expansion_add, args.expansion_search),
            dir.index_usearch),
        arguments |-> args]

\* load(base_path), a class method: it builds another adapter from the files.
Load ==
    /\ IF disk.saved
       THEN /\ loaded' = LoadFrom(disk)
            /\ lret' = NoCall
            /\ ret' = [NoCall EXCEPT !.op = "load"]
       ELSE /\ UNCHANGED <<loaded, lret>>
            /\ ret' = [NoCall EXCEPT !.op = "load",
                                      !.error = "FileNotFoundError"]
    /\ UNCHANGED <<state, index, arguments, disk, presave, supplied>>

\* query(vectors, k) on the adapter load returned.
LoadedQuery ==
    /\ loaded.present
    /\ \E vectors \in ProbeBatches(Dim(loaded.index)), k \in -1..MaxK :
         \E out \in Query(loaded.index, vectors, k) :
            lret' = [NoCall EXCEPT !.op = "query", !.vectors = vectors,
                                    !.k = k, !.error = out.error,
                                    !.rows = out.rows]
    /\ UNCHANGED <<state, index, arguments, disk, loaded, presave, supplied,
                   ret>>

Next ==
    \/ FromVectors
    \/ Insert
    \/ Delete
    \/ QueryCall
    \/ ThresholdCall
    \/ Save
    \/ Load

Spec == Init /\ [][Next]_vars

\* The same adapter, with the loaded adapter queried as well.
NextRoundTrip ==
    \/ Next
    \/ LoadedQuery

SpecRoundTrip == Init /\ [][NextRoundTrip]_vars

(***************************************************************************)
(* The claims.                                                             *)
(***************************************************************************)
Keys(idx) == {idx.entries[i].key : i \in 1..Len(idx.entries)}

NonDecreasing(row) ==
    \A i, j \in 1..Len(row) : i < j => row[i].dist <= row[j].dist

\* C1: the length of the adapter is the number of rows handed to from_vectors
\* plus the rows of every insert since; query, threshold, save and a failed
\* delete leave the length as it was.
C1_LengthCountsRows ==
    [][ /\ state' = "BUILT" => Length(index') = supplied'
        /\ ret'.op = "from_vectors" => Length(index') = Len(ret'.vectors)
        /\ ret'.op = "insert" =>
              Length(index') = Length(index) + Len(ret'.vectors)
        /\ ret'.op \in {"query", "threshold", "save", "delete"} =>
              Length(index') = Length(index) ]_vars

C1_Witness ==
    /\ ret.op = "insert"
    /\ Length(index) = supplied
    /\ Length(index) > Len(ret.vectors) + 1

\* C2: delete, whatever the index list and the state, raises the
\* unsupported-operation error and leaves length, stored vectors and the
\* argument record unchanged.
C2_DeleteUnsupported ==
    [][ ret'.op = "delete" =>
          /\ ret'.error = "NotImplementedError"
          /\ index' = index
          /\ arguments' = arguments ]_vars

C2_Witness ==
    /\ ret.op = "delete"
    /\ ret.error = "NotImplementedError"
    /\ ret.indices = <<0, Length(index)>>
    /\ Length(index) > MaxRows

\* C3: a query with k greater than the length succeeds and returns, per query
\* vector, exactly length pairs.
C3_ShortResult ==
    (ret.op = "query" /\ ret.k > Length(index)) =>
        /\ ret.error = ""
        /\ Len(ret.rows) = Len(ret.vectors)
        /\ \A r \in 1..Len(ret.rows) : Len(ret.rows[r]) = Length(index)

\* C4: a query with k <= 0 fails: it returns no result and changes nothing of
\* the adapter.
C4_NonPositiveKRejected ==
    [][ (ret'.op = "query" /\ ret'.k <= 0) =>
          /\ ret'.error # ""
          /\ ret'.rows = <<>>
          /\ index' = index
          /\ arguments' = arguments
          /\ disk' = disk ]_vars

C4_Witness ==
    /\ ret.op = "query"
    /\ ret.k = 0
    /\ ret.error = "ValueError"
    /\ Len(ret.vectors) > 1

\* C5: when the adapter is as it was saved and the loaded adapter is the one
\* the saved files give, the two have the same dim, length and argument
\* record, and the same probe batch queried with the same k on both gives the
\* same result.
C5_RoundTrip ==
    (presave.present /\ index = presave.index /\ loaded = LoadFrom(disk)) =>
        /\ Dim(loaded.index) = Dim(index)
        /\ Length(loaded.index) = Length(index)
        /\ loaded.arguments = arguments
        /\ (/\ ret.op = "query" /\ lret.op = "query"
            /\ ret.vectors = lret.vectors /\ ret.k = lret.k)
              => (ret.error = lret.error /\ ret.rows = lret.rows)

\* C6: from_vectors called with a key besides metric, connectivity,
\* expansion_add and expansion_search fails and builds no adapter.
C6_UnknownKeyRejected ==
    (ret.op = "from_vectors" /\ ret.extra # {}) =>
        (ret.error # "" /\ state = "UNBUILT")

\* C7: threshold returns, per query vector, exactly the keys of the probe
\* query(vector, 100) whose distance is strictly below the threshold: none at
\* or above it, none from outside the probe, at most 100.
C7_ThresholdFiltersProbe ==
    ret.op = "threshold" =>
        /\ \E q \in Query(index, ret.vectors, ThresholdK) :
              q.error = ret.error /\ q.rows = ret.rows
        /\ ret.error = "" =>
              /\ Len(ret.subsets) = Len(ret.vectors)
              /\ \A r \in 1..Len(ret.subsets) :
                    LET row == ret.rows[r]
                        sub == ret.subsets[r]
                        hit == {i \in 1..Len(row) : row[i].dist < ret.t}
                    IN /\ Len(sub) = Cardinality(hit)
                       /\ Len(sub) <= ThresholdK
                       /\ \A j \in 1..Len(sub) :
                             \E i \in hit : row[i].key = sub[j]
                       /\ \A i \in hit :
                             \E j \in 1..Len(sub) : sub[j] = row[i].key

C7_Witness ==
    /\ ret.op = "threshold"
    /\ ret.error = ""
    /\ Length(index) > ThresholdK
    /\ Len(ret.rows[1]) = ThresholdK
    /\ Len(ret.subsets[1]) > 0
    /\ Len(ret.subsets[1]) < ThresholdK
    /\ \E i \in 1..ThresholdK : ret.rows[1][i].dist = ret.t

\* C8: every row a query returns has at most k pairs, their distances
\* non-decreasing.
C8_NearestFirst ==
    (ret.op = "query" /\ ret.error = "") =>
        \A r \in 1..Len(ret.rows) :
            /\ Len(ret.rows[r]) <= ret.k
            /\ NonDecreasing(ret.rows[r])

\* C9: the keys held are exactly 0 .. len-1, in order of insertion; an insert
\* gives the rows of its batch, in order, the keys len_before ..
\* len_before + rows - 1, and no entry stored earlier changes.
C9_ContiguousStableKeys ==
    [][ state' = "BUILT" =>
          /\ Keys(index') = 0..(Length(index') - 1)
          /\ \A i \in 1..Length(index') : index'.entries[i].key = i - 1
          /\ SubSeq(index'.entries, 1, Length(index)) = index.entries
          /\ ret'.op \in {"insert", "from_vectors"} =>
                /\ Length(index') = Length(index) + Len(ret'.vectors)
                /\ \A i \in 1..Len(ret'.vectors) :
                      index'.entries[Length(index) + i] =
                          [key    |-> Length(index) + i - 1,
                           vector |-> ret'.vectors[i]] ]_vars

C9_Witness ==
    /\ ret.op = "insert"
    /\ Len(ret.vectors) > 1
    /\ Length(index) > Len(ret.vectors)
    /\ index.entries[Length(index)].key = Length(index) - 1

\* C10: the argument record of a built adapter never changes, whatever is
\* called, nor does the record of a loaded one; its dim is the adapter's dim,
\* the column count of the build batch.
C10_ArgumentsImmutable ==
    [][ /\ state = "BUILT" => arguments' = arguments
        /\ ret'.op = "from_vectors" =>
              arguments'.dim = Len(ret'.vectors[1])
        /\ state' = "BUILT" => arguments'.dim = Dim(index')
        /\ (loaded.present /\ ret'.op # "load") => loaded' = loaded
        /\ loaded'.present => loaded'.arguments.dim = Dim(loaded'.index) ]_vars

C10_Witness ==
    /\ ret.op = "insert"
    /\ loaded.present
    /\ arguments.dim = Dim(index)
    /\ arguments = loaded.arguments
    /\ arguments.connectivity = 32

====
